---- MODULE Spec2Model ----
(***************************************************************************)
(* State-machine model of app.py (Meraki MV snapshot collector): one run   *)
(* of cli(), i.e. getOrgs -> getCameraSerials -> collectSnapshots ->       *)
(* (optional) renderWeb.  The Meraki dashboard, the prompt, the HTTP       *)
(* download and the filesystem are the environment: every answer they can  *)
(* give is a nondeterministic choice.                                      *)
(***************************************************************************)
EXTENDS Integers, Sequences, FiniteSets, TLC

VARIABLES
    pc,          \* position of the run inside cli()
    exitStatus,  \* process exit status, meaningful when pc = "exit"
    exitSite,    \* function in which the process ended
    raised,      \* uncaught exception that ended the run, or None
    time,        \* cli option --time (NoTime or a datetime)
    orgs,        \* getOrgs: result of getOrganizations()
    orgsListed,  \* getOrganizations() has returned a list
    selection,   \* getOrgs: answer of Prompt.ask, None while not asked
    org_id,      \* cli: value returned by getOrgs
    device_list, \* getCameraSerials: result of getOrganizationDevices()
    cameras,     \* the cameras dict (insertion ordered), shared by all steps
    bad_cam,     \* collectSnapshots: "name / serial" of failed cameras
    remove,      \* collectSnapshots: serials to delete
    i,           \* index of the request loop over cameras.items()
    j,           \* index of the download loop over cameras.items()
    dirExists,   \* outputdir exists on disk
    files,       \* files written by this run: set of [path, content]
    returned,    \* collectSnapshots has returned the cameras mapping
    rendered,    \* renderWeb(cameras, outputdir) was called
    log          \* calls made to the outside world, in order

vars == <<pc, exitStatus, exitSite, raised, time, orgs, orgsListed, selection,
          org_id, device_list, cameras, bad_cam, remove, i, j, dirExists,
          files, returned, rendered, log>>

(***************************************************************************)
(* Bounds of the model and the values the environment answers with.        *)
(***************************************************************************)
MaxOrgs == 2
MaxCams == 3

None == "None"
\* the n-th organization id and camera serial of the account: identifiers
\* are unique, so a listing of n items carries the first n of them
OrgId(n) == "org" \o ToString(n)
Serial(n) == "Q2XX-" \o ToString(n)
OrgNames == {"Acme", "Globex"}
Names == {"", "Lobby"}
URLs == {"https://snap/1", "https://snap/2"}
Bytes == {"jpeg1", "jpeg2"}
\* a datetime is <<year, month, day, hour, minute, second>>; NoTime is None
NoTime == <<>>
Times == {NoTime, <<2024, 1, 15, 9, 5, 0>>}

outputdir == "snapshots"
SettleDelay == 15

(***************************************************************************)
(* Python values: dicts as insertion-ordered sequences of [k, v] entries.  *)
(***************************************************************************)
Range(s) == {s[n] : n \in DOMAIN s}

Keys(d) == [n \in DOMAIN d |-> d[n].k]

HasKey(d, key) == \E n \in DOMAIN d : d[n].k = key

DictGet(d, key) == (CHOOSE e \in Range(d) : e.k = key).v

\* d[key] = val : replaces the value in place, or appends a new entry
DictSet(d, key, val) ==
    IF HasKey(d, key)
    THEN [n \in DOMAIN d |-> IF d[n].k = key THEN [k |-> key, v |-> val] ELSE d[n]]
    ELSE Append(d, [k |-> key, v |-> val])

\* a deletion that leaves the entry in place
DictDel_KeepsEntry(d, key) == d

\* del d[key]
DictDel(d, key) ==
    LET Keep(e) == e.k # key IN SelectSeq(d, Keep)

\* datetime.isoformat()
Pad2(n) == IF n < 10 THEN "0" \o ToString(n) ELSE ToString(n)

isoformat(t) ==
    ToString(t[1]) \o "-" \o Pad2(t[2]) \o "-" \o Pad2(t[3]) \o "T"
        \o Pad2(t[4]) \o ":" \o Pad2(t[5]) \o ":" \o Pad2(t[6])

SeqsUpTo(S, n) == UNION {[1..m -> S] : m \in 0..n}

\* what getOrganizations() can answer: organizations with distinct ids and
\* any names
OrgLists ==
    {[n \in DOMAIN names |-> [id |-> OrgId(n), name |-> names[n]]] :
        names \in SeqsUpTo(OrgNames, MaxOrgs)}

\* what getOrganizationDevices() can answer: cameras with distinct serials
\* and any names
DeviceLists ==
    {[n \in DOMAIN names |-> [serial |-> Serial(n), name |-> names[n]]] :
        names \in SeqsUpTo(Names, MaxCams)}

(***************************************************************************)
(* Process end: sys.exit(status) or an uncaught exception (status 1).      *)
(***************************************************************************)
SysExit(status, site) ==
    /\ pc' = "exit"
    /\ exitStatus' = status
    /\ exitSite' = site

\* an exception that is swallowed where it is raised
Uncaught_Swallowed(exc, site) ==
    /\ raised' = exc
    /\ UNCHANGED <<pc, exitStatus, exitSite>>

Uncaught(exc, site) ==
    /\ SysExit(1, site)
    /\ raised' = exc

Init ==
    /\ pc = "getOrgs"
    /\ exitStatus = 0
    /\ exitSite = None
    /\ raised = None
    /\ time \in Times
    /\ orgs = <<>>
    /\ orgsListed = FALSE
    /\ selection = None
    /\ org_id = None
    /\ device_list = <<>>
    /\ cameras = <<>>
    /\ bad_cam = <<>>
    /\ remove = <<>>
    /\ i = 1
    /\ j = 1
    /\ dirExists = FALSE
    /\ files = {}
    /\ returned = FALSE
    /\ rendered = FALSE
    /\ log = <<>>

(***************************************************************************)
(* getOrgs                                                                 *)
(***************************************************************************)
\* lines 44-50: the listing fails with APIError, which is fatal
GetOrgsApiError ==
    /\ pc = "getOrgs"
    /\ SysExit(1, "getOrgs")
    /\ UNCHANGED <<raised, time, orgs, orgsListed, selection, org_id,
                   device_list, cameras, bad_cam, remove, i, j, dirExists,
                   files, returned, rendered, log>>

\* lines 44-65: the listing succeeds; a single organization is returned at
\* once, otherwise the names are shown and the prompt comes next
GetOrgsListed ==
    /\ pc = "getOrgs"
    /\ \E l \in OrgLists :
        /\ orgs' = l
        /\ orgsListed' = TRUE
        /\ IF Len(l) = 1
           THEN /\ org_id' = l[1].id
                /\ pc' = "getCameraSerials"
           ELSE /\ org_id' = org_id
                /\ pc' = "prompt"
    /\ UNCHANGED <<exitStatus, exitSite, raised, time, selection, device_list,
                   cameras, bad_cam, remove, i, j, dirExists, files, returned,
                   rendered, log>>

\* line 61
org_names == [n \in DOMAIN orgs |-> orgs[n].name]

\* a lookup that ignores the selection
OrgIdByName_First(os, sel) == os[1].id

\* lines 69-71: id of the first organization named sel
OrgIdByName(os, sel) ==
    os[CHOOSE n \in DOMAIN os :
           /\ os[n].name = sel
           /\ \A m \in DOMAIN os : os[m].name = sel => n <= m].id

\* lines 66-71: Prompt.ask answers only with one of its choices
GetOrgsPrompt ==
    /\ pc = "prompt"
    /\ \E sel \in Range(org_names) :
        /\ selection' = sel
        /\ org_id' = OrgIdByName(orgs, sel)
    /\ pc' = "getCameraSerials"
    /\ UNCHANGED <<exitStatus, exitSite, raised, time, orgs, orgsListed,
                   device_list, cameras, bad_cam, remove, i, j, dirExists,
                   files, returned, rendered, log>>

(***************************************************************************)
(* getCameraSerials                                                        *)
(***************************************************************************)
RECURSIVE BuildCameras(_, _)
\* lines 81-84
BuildCameras(devs, d) ==
    IF devs = <<>> THEN d
    ELSE BuildCameras(Tail(devs),
                      DictSet(d, Head(devs).serial, [name |-> Head(devs).name]))

\* an emptiness test that never fires
NoCameras_Never(d) == FALSE

\* lines 87-89
NoCameras(d) == Len(Keys(d)) = 0

\* lines 78-91; the locals of getOrgs are gone once it has returned
GetCameraSerials ==
    /\ pc = "getCameraSerials"
    /\ \E l \in DeviceLists :
        /\ device_list' = l
        /\ cameras' = BuildCameras(l, <<>>)
        /\ log' = Append(log, <<"getOrganizationDevices", org_id>>)
        /\ IF NoCameras(BuildCameras(l, <<>>))
           THEN SysExit(1, "getCameraSerials")
           ELSE /\ pc' = "request"
                /\ UNCHANGED <<exitStatus, exitSite>>
    /\ orgs' = <<>>
    /\ selection' = None
    /\ UNCHANGED <<raised, time, orgsListed, org_id, bad_cam, remove, i, j,
                   dirExists, files, returned, rendered>>

(***************************************************************************)
(* collectSnapshots                                                        *)
(***************************************************************************)
\* lines 104-106
DisplayName(name) == IF name = "" THEN "No Name Set" ELSE name

\* lines 108-119: the arguments of generateDeviceCameraSnapshot
SnapshotArgs(serial, t) ==
    IF t = NoTime THEN <<serial>> ELSE <<serial, isoformat(t)>>

\* line 121: cameras[serial]["snapshot"] = result["url"]
SetSnapshot(d, serial, url) ==
    DictSet(d, serial, [name |-> DictGet(d, serial).name, snapshot |-> url])

\* line 123
BadCamLabel(name, serial) == name \o " / " \o serial

\* lines 103-124, one turn of the request loop: the request answers with a
\* url, or raises APIError (result = None)
RequestSnapshot ==
    /\ pc = "request"
    /\ i <= Len(cameras)
    /\ LET serial == cameras[i].k
           name == DisplayName(cameras[i].v.name)
       IN  \/ \E url \in URLs :
                /\ cameras' = SetSnapshot(cameras, serial, url)
                /\ log' = Append(log, <<"generateDeviceCameraSnapshot",
                                        SnapshotArgs(serial, time), "ok", url>>)
                /\ UNCHANGED <<bad_cam, remove>>
           \/ /\ bad_cam' = Append(bad_cam, BadCamLabel(name, serial))
              /\ remove' = Append(remove, serial)
              /\ log' = Append(log, <<"generateDeviceCameraSnapshot",
                                      SnapshotArgs(serial, time), "APIError", "">>)
              /\ UNCHANGED cameras
    /\ i' = i + 1
    /\ UNCHANGED <<pc, exitStatus, exitSite, raised, time, orgs, orgsListed,
                   selection, org_id, device_list, j, dirExists, files,
                   returned, rendered>>

RECURSIVE DelAll(_, _)
\* lines 133-134
DelAll(d, rm) ==
    IF rm = <<>> THEN d ELSE DelAll(DictDel(d, Head(rm)), Tail(rm))

\* lines 129-134
AfterRemoval(d, bad, rm) == IF Len(bad) > 0 THEN DelAll(d, rm) ELSE d

\* line 136, evaluated on the mapping as it is after lines 129-134
NothingCollected(bad, d) == Len(bad) = Len(Keys(d))

\* lines 126-138: the loop is over; failed cameras are deleted, then the
\* run exits or goes on to the delay
RequestsDone ==
    /\ pc = "request"
    /\ i > Len(cameras)
    /\ cameras' = AfterRemoval(cameras, bad_cam, remove)
    /\ IF NothingCollected(bad_cam, AfterRemoval(cameras, bad_cam, remove))
       THEN SysExit(1, "collectSnapshots")
       ELSE /\ pc' = "sleep"
            /\ UNCHANGED <<exitStatus, exitSite>>
    /\ UNCHANGED <<raised, time, orgs, orgsListed, selection, org_id,
                   device_list, bad_cam, remove, i, j, dirExists, files,
                   returned, rendered, log>>

\* a collector that goes on to the download without waiting
Sleep_Skipped ==
    /\ pc = "sleep"
    /\ pc' = "makedirs"
    /\ UNCHANGED <<exitStatus, exitSite, raised, time, orgs, orgsListed,
                   selection, org_id, device_list, cameras, bad_cam, remove,
                   i, j, dirExists, files, returned, rendered, log>>

\* lines 140-142
Sleep ==
    /\ pc = "sleep"
    /\ log' = Append(log, <<"sleep", SettleDelay>>)
    /\ pc' = "makedirs"
    /\ UNCHANGED <<exitStatus, exitSite, raised, time, orgs, orgsListed,
                   selection, org_id, device_list, cameras, bad_cam, remove,
                   i, j, dirExists, files, returned, rendered>>

\* lines 144-149: the directory is there already, or is created
MakeDirs ==
    /\ pc = "makedirs"
    /\ \E exists \in BOOLEAN :
        log' = IF exists THEN log ELSE Append(log, <<"makedirs", outputdir>>)
    /\ dirExists' = TRUE
    /\ pc' = "download"
    /\ UNCHANGED <<exitStatus, exitSite, raised, time, orgs, orgsListed,
                   selection, org_id, device_list, cameras, bad_cam, remove,
                   i, j, files, returned, rendered>>

\* line 154: the loop variable bound to the key of cameras.items()
SnapshotPath(dir, key) == dir \o "/" \o key \o ".jpg"

\* a write that stores nothing
WriteFile_Dropped(fs, path, content) == fs

\* lines 154-155: open(path, "wb") truncates, write stores the bytes
WriteFile(fs, path, content) ==
    {f \in fs : f.path # path} \cup {[path |-> path, content |-> content]}

\* lines 151-155, one turn of the download loop: requests.get answers with
\* the bytes or raises, and nothing catches what it raises
Download ==
    /\ pc = "download"
    /\ j <= Len(cameras)
    /\ LET name == cameras[j].k
           cam == cameras[j].v
       IN  IF "snapshot" \notin DOMAIN cam
           THEN /\ Uncaught("KeyError", "collectSnapshots")
                /\ UNCHANGED <<j, files, log>>
           ELSE IF cam.snapshot = None
           THEN /\ j' = j + 1
                /\ UNCHANGED <<pc, exitStatus, exitSite, raised, files, log>>
           ELSE \/ \E snapshot \in Bytes :
                     /\ files' = WriteFile(files, SnapshotPath(outputdir, name),
                                           snapshot)
                     /\ log' = log \o << <<"get", cam.snapshot>>,
                                         <<"write", SnapshotPath(outputdir, name),
                                           snapshot>> >>
                     /\ j' = j + 1
                     /\ UNCHANGED <<pc, exitStatus, exitSite, raised>>
                \/ /\ Uncaught("ConnectionError", "collectSnapshots")
                   /\ log' = Append(log, <<"get", cam.snapshot>>)
                   /\ UNCHANGED <<j, files>>
    /\ UNCHANGED <<time, orgs, orgsListed, selection, org_id, device_list,
                   cameras, bad_cam, remove, i, dirExists, returned, rendered>>

\* lines 156-158
Return ==
    /\ pc = "download"
    /\ j > Len(cameras)
    /\ returned' = TRUE
    /\ pc' = "report"
    /\ UNCHANGED <<exitStatus, exitSite, raised, time, orgs, orgsListed,
                   selection, org_id, device_list, cameras, bad_cam, remove,
                   i, j, dirExists, files, rendered, log>>

(***************************************************************************)
(* cli, after collectSnapshots                                             *)
(***************************************************************************)
\* lines 247-264: with --outputhtml the cameras mapping goes to renderWeb;
\* the run then ends normally
Report ==
    /\ pc = "report"
    /\ \E outputhtml \in BOOLEAN : rendered' = outputhtml
    /\ SysExit(0, "cli")
    /\ UNCHANGED <<raised, time, orgs, orgsListed, selection, org_id,
                   device_list, cameras, bad_cam, remove, i, j, dirExists,
                   files, returned, log>>

Next ==
    \/ GetOrgsApiError
    \/ GetOrgsListed
    \/ GetOrgsPrompt
    \/ GetCameraSerials
    \/ RequestSnapshot
    \/ RequestsDone
    \/ Sleep
    \/ MakeDirs
    \/ Download
    \/ Return
    \/ Report

Spec == Init /\ [][Next]_vars

(***************************************************************************)
(* What the run has done so far, read off the log.                         *)
(***************************************************************************)
Called(op) == {n \in DOMAIN log : log[n][1] = op}

ReqIdx == Called("generateDeviceCameraSnapshot")

ReqSerial(n) == log[n][2][1]

\* serials whose snapshot request was answered with a url / with APIError
Succeeded == {ReqSerial(n) : n \in {m \in ReqIdx : log[m][3] = "ok"}}

Failed == {ReqSerial(n) : n \in {m \in ReqIdx : log[m][3] = "APIError"}}

\* the url the dashboard returned for a serial
ReturnedUrl(serial) ==
    log[CHOOSE n \in ReqIdx : ReqSerial(n) = serial /\ log[n][3] = "ok"][4]

DevicesListed == Called("getOrganizationDevices") # {}

\* the request loop and lines 126-138 are over
RequestsOver ==
    \/ pc \in {"sleep", "makedirs", "download", "report"}
    \/ pc = "exit" /\ exitSite \in {"collectSnapshots", "cli"}

\* a non-empty strict subset of the cameras answered the request
PartialSuccess == RequestsOver /\ Succeeded # {} /\ Failed # {}

FatalExit == pc = "exit" /\ exitStatus = 1

WrittenPaths == {f.path : f \in files}

\* the file of a cameras key is on disk, with the bytes written for it
HasFile(key) ==
    \E f \in files :
        /\ f.path = SnapshotPath(outputdir, key)
        /\ \E n \in Called("write") : log[n][2] = f.path /\ log[n][3] = f.content

(***************************************************************************)
(* C1: when the request fails for every camera of a non-empty set, the run *)
(* ends fatally (status 1) before the delay: no sleep, no directory        *)
(* creation, no fetch and no write ever happens.                           *)
(***************************************************************************)
C1_AllFailedIsFatal ==
    (RequestsOver /\ device_list # <<>> /\ Succeeded = {}) =>
        /\ FatalExit
        /\ exitSite = "collectSnapshots"
        /\ Called("sleep") \cup Called("makedirs") \cup Called("get")
               \cup Called("write") = {}

(***************************************************************************)
(* C2: when the request succeeds for a non-empty strict subset S and fails *)
(* for the rest (|failed| = |S| included), the run is not fatal: it goes   *)
(* on to the delay and the downloads, and once it has returned there is    *)
(* one file for each camera of S.                                          *)
(***************************************************************************)
C2_PartialFailureNotFatal ==
    PartialSuccess =>
        /\ ~(FatalExit /\ raised = None)
        /\ returned => Cardinality(WrittenPaths) = Cardinality(Succeeded)

(***************************************************************************)
(* C3: after the request phase with a non-empty strict subset S            *)
(* succeeding, the keys of cameras are exactly S (every failed serial      *)
(* removed, no succeeding one removed) and every remaining record carries  *)
(* the url returned for its serial.                                        *)
(***************************************************************************)
C3_WorkingSetIsS ==
    PartialSuccess =>
        /\ Range(Keys(cameras)) = Succeeded
        /\ Len(cameras) = Cardinality(Succeeded)
        /\ \A n \in DOMAIN cameras :
            /\ "snapshot" \in DOMAIN cameras[n].v
            /\ cameras[n].v.snapshot = ReturnedUrl(cameras[n].k)

C3_Witness ==
    /\ PartialSuccess
    /\ pc = "sleep"
    /\ Cardinality(Succeeded) = 2
    /\ Cardinality(Failed) = 1

(***************************************************************************)
(* C4: when the device listing returns zero cameras the run ends with a    *)
(* non-zero status inside getCameraSerials, and no snapshot request, delay *)
(* or download happens in that run.                                        *)
(***************************************************************************)
C4_NoCamerasIsFatal ==
    (DevicesListed /\ device_list = <<>>) =>
        /\ pc = "exit"
        /\ exitStatus # 0
        /\ exitSite = "getCameraSerials"
        /\ ReqIdx \cup Called("sleep") \cup Called("get") \cup Called("write") = {}

C4_Witness ==
    /\ DevicesListed
    /\ device_list = <<>>
    /\ pc = "exit"

(***************************************************************************)
(* C5: when the organization listing succeeds with zero organizations,     *)
(* getOrgs treats it as fatal: the run ends with status 1, and no id is    *)
(* returned and no device listing follows.                                 *)
(***************************************************************************)
C5_NoOrganizationsIsFatal ==
    (orgsListed /\ org_id = None /\ orgs = <<>>) =>
        /\ FatalExit
        /\ ~DevicesListed

(***************************************************************************)
(* C6: each downloaded image is written to <outputdir>/<camera name>.jpg,  *)
(* keyed by the display name and not the serial: after a run that          *)
(* returned, the files written are those of the display names of the       *)
(* cameras (one file for cameras sharing a name), each holding the bytes   *)
(* that were fetched.                                                      *)
(***************************************************************************)
C6_FilesKeyedByDisplayName ==
    returned =>
        /\ WrittenPaths =
               {SnapshotPath(outputdir, c.v.name) : c \in Range(cameras)}
        /\ \A f \in files :
               \E n \in Called("write") : log[n][2] = f.path /\ log[n][3] = f.content

C8_OrgIdOfSelection ==
    (pc = "getCameraSerials") =>
        /\ \E n \in DOMAIN orgs : orgs[n].id = org_id
        /\ Len(orgs) = 1 => org_id = orgs[1].id /\ selection = None
        /\ Len(orgs) >= 2 =>
            /\ selection # None
            /\ \A n \in DOMAIN orgs : orgs[n].id = org_id => orgs[n].name = selection

C8_Witness ==
    /\ pc = "getCameraSerials"
    /\ Len(orgs) >= 2
    /\ orgs[1].name # orgs[2].name
    /\ selection = orgs[2].name

(***************************************************************************)
(* C9: in every run that fetches at least one image, each camera of the    *)
(* initial set was requested exactly once, all requests came before the    *)
(* delay, the delay happened exactly once, and no fetch came before it.    *)
(***************************************************************************)
C9_PhasesOrdered ==
    (Called("get") # {}) =>
        /\ Cardinality(ReqIdx) = Len(device_list)
        /\ \A d \in Range(device_list) :
               Cardinality({n \in ReqIdx : ReqSerial(n) = d.serial}) = 1
        /\ Cardinality(Called("sleep")) = 1
        /\ \A s \in Called("sleep") :
            /\ log[s][2] = SettleDelay
            /\ \A n \in ReqIdx : n < s
            /\ \A g \in Called("get") \cup Called("write") \cup Called("makedirs") : s < g

C9_Witness ==
    /\ Cardinality(Called("get")) = 2
    /\ Len(device_list) = 3
    /\ Failed # {}

(***************************************************************************)
(* C10: a fetch failure in the download loop is not caught: the run ends   *)
(* there without returning the mapping, the files of the cameras before    *)
(* it stay on disk, and nothing is fetched or written for the failing      *)
(* camera's successors (it is neither skipped nor retried).                *)
(***************************************************************************)
C10_FetchFailureAborts ==
    (raised = "ConnectionError") =>
        /\ pc = "exit"
        /\ exitStatus # 0
        /\ ~returned
        /\ ~rendered
        /\ ~ENABLED Download
        /\ j \in DOMAIN cameras
        /\ \A n \in 1..(j - 1) : HasFile(cameras[n].k)
        /\ \A n \in j..Len(cameras) :
               SnapshotPath(outputdir, cameras[n].k) \notin WrittenPaths
        /\ Cardinality(Called("get")) = j
        /\ Cardinality(Called("write")) = j - 1

C10_Witness ==
    /\ raised = "ConnectionError"
    /\ j = 2
    /\ Len(cameras) = 3
====
